---- MODULE Spec2Model ----
(***************************************************************************)
(* A model of the audit mode of app.py (the 8D report assistant): the      *)
(* session's AuditResult, the audit run (extraction request followed by    *)
(* evaluation request), translate_report, the translation run with its     *)
(* re-split on the sentinel delimiter, and the render/export branch that   *)
(* follows.                                                                *)
(*                                                                         *)
(* Python values are tagged records: None, Str(chars), Dict(items),        *)
(* List.  A text is a sequence of symbols: "n" stands for the blank line   *)
(* "\n\n", "*" for the token "***AI_EVAL_SEP***", every other symbol for   *)
(* text that contains neither.  The delimiter "\n\n***AI_EVAL_SEP***\n\n"  *)
(* is therefore <<"n", "*", "n">>: like the original it begins and ends    *)
(* with the same piece, so two occurrences can overlap.                    *)
(*                                                                         *)
(* The language labels of the select boxes are written in ASCII:           *)
(* "zh" is the label of the default (Chinese) entry, "en" the English      *)
(* one, "ja" the Japanese one.                                             *)
(***************************************************************************)
EXTENDS Integers, Sequences, FiniteSets, TLC

VARIABLES api_key, audit_result, audit_lang_select, last, derived_from, tr,
          data, translation_lang, gs

vars == <<api_key, audit_result, audit_lang_select, last, derived_from, tr,
          data, translation_lang, gs>>

\* the state of the authoring mode and the record of a call of
\* get_action_status
authoring == <<data, translation_lang, gs>>

\* the state of the audit mode and the record of a call of translate_report
auditing == <<audit_result, audit_lang_select, derived_from, tr>>

-----------------------------------------------------------------------------
(* Bounds *)

\* a model text is the concatenation of at most MaxPieces pieces
MaxPieces == 2

\* an extraction response omits at most MaxOmitted entries of the schema
MaxOmitted == 1

\* an AI suggestion holds at most MaxWhys entries in five_whys
MaxWhys == 6

\* the day numbers tried in a date string run from 0 to MaxDay
MaxDay == 32

\* the D5 list is filled with at most MaxActions entries
MaxActions == 2

-----------------------------------------------------------------------------
(* Python values *)

None == [type |-> "NoneType"]

Str(s) == [type |-> "str", chars |-> s]

Dict(f) == [type |-> "dict", items |-> f]

\* a non-empty JSON array where an object was asked for
List == [type |-> "list"]

\* Python truthiness, as used by `if x:` and `x and y`
Truthy(v) ==
    CASE v.type = "NoneType" -> FALSE
      [] v.type = "str"      -> v.chars # <<>>
      [] v.type = "dict"     -> DOMAIN v.items # {}
      [] v.type = "list"     -> TRUE

-----------------------------------------------------------------------------
(* Texts and the sentinel delimiter *)

SEP == <<"n", "*", "n">>

\* plain text, the token without its blank lines, the whole delimiter
Pieces == {<<"a">>, <<"*">>, SEP}

RECURSIVE ConcatsOf(_)
ConcatsOf(k) ==
    IF k = 0 THEN {<<>>}
    ELSE LET shorter == ConcatsOf(k - 1)
         IN  shorter \cup {t \o p : t \in shorter, p \in Pieces}

Texts == ConcatsOf(MaxPieces)

\* does the delimiter start at position i of t
MatchAt(t, i) ==
    /\ i >= 1
    /\ i + Len(SEP) - 1 <= Len(t)
    /\ SubSeq(t, i, i + Len(SEP) - 1) = SEP

\* str.find: the first position of the delimiter in t, 0 when there is none
Find(t) ==
    IF \E i \in 1..Len(t) : MatchAt(t, i)
    THEN CHOOSE i \in 1..Len(t) :
            MatchAt(t, i) /\ \A j \in 1..(i - 1) : ~MatchAt(t, j)
    ELSE 0

\* str.count: the number of non-overlapping occurrences, left to right
RECURSIVE Count(_)
Count(t) ==
    IF Find(t) = 0 THEN 0
    ELSE 1 + Count(SubSeq(t, Find(t) + Len(SEP), Len(t)))

Contains(t) == Find(t) # 0

\* mutant of Split: splits at every delimiter and keeps the first two parts
SplitDropRest(t) ==
    IF Find(t) = 0 THEN <<t>>
    ELSE LET rest == SubSeq(t, Find(t) + Len(SEP), Len(t))
         IN  <<SubSeq(t, 1, Find(t) - 1),
               IF Find(rest) = 0 THEN rest
               ELSE SubSeq(rest, 1, Find(rest) - 1)>>

\* translated_content.split('\n\n***AI_EVAL_SEP***\n\n', 1)
Split(t) ==
    LET i == Find(t)
    IN  IF i = 0 THEN <<t>>
        ELSE <<SubSeq(t, 1, i - 1), SubSeq(t, i + Len(SEP), Len(t))>>

-----------------------------------------------------------------------------
(* The extraction schema and the JSON values the model may return *)

ScalarKeys == {"D1_TeamLeader", "D6_Verification", "D7_Standardization",
               "D8_Conclusion"}

ListKeys == {"D3_ICA", "D5_Actions"}

D2Keys == {"What", "When", "Where", "Who", "Why", "How", "HowMuch"}

D4Keys == {"OccurrenceRootCause", "EscapeRootCause"}

SchemaKeys == ScalarKeys \cup ListKeys \cup {"D2_5W2H", "D4_RootCause"}

ActionRecord == [action |-> "v", owner |-> "N/A", dueDate |-> "N/A",
                 status |-> "Open"]

\* the value the prompt asks for under key k, its nested keys in `sub` omitted
FieldValue(k, sub) ==
    CASE k \in ScalarKeys    -> "v"
      [] k \in ListKeys      -> <<ActionRecord>>
      [] k = "D2_5W2H"       -> [s \in D2Keys \ sub |-> "v"]
      [] k = "D4_RootCause"  -> [s \in D4Keys \ sub |-> "v"]

\* the entries a response of the model may leave out: top-level keys and,
\* written "D2_5W2H.What", nested keys
Omittable == {<<"D1_TeamLeader">>, <<"D3_ICA">>, <<"D2_5W2H">>,
              <<"D2_5W2H", "What">>}

\* the JSON object that follows the schema except for the omitted entries
ObjectOmitting(omitted) ==
    LET top == {e[1] : e \in {o \in omitted : Len(o) = 1}}
        sub == {e[2] : e \in {o \in omitted : Len(o) = 2}}
    IN  Dict([k \in SchemaKeys \ top |-> FieldValue(k, sub)])

ExtractionObjects ==
    {ObjectOmitting(om) : om \in {o \in SUBSET Omittable :
                                     Cardinality(o) <= MaxOmitted}}
        \cup {Dict([k \in {} |-> "v"])}

\* json.loads of a text that is valid JSON: null, an array, an object
JsonValues == {None, List} \cup ExtractionObjects

\* a message content that is the JSON text of v
JsonText(v) == [type |-> "str", json |-> v]

\* the outcomes of client.chat.completions.create followed by
\* response.choices[0].message.content: the call raises, or it returns a
\* message whose content is None or a string
Raises == [kind |-> "raise"]

Returns(c) == [kind |-> "ok", content |-> c]

ExtractionResponses ==
    {Raises, Returns(None), Returns(Str(<<"a">>))}
        \cup {Returns(JsonText(v)) : v \in JsonValues}

EvaluationTexts == {<<>>, <<"a">>, SEP \o <<"a">>}

EvaluationResponses ==
    {Raises, Returns(None)} \cup {Returns(Str(t)) : t \in EvaluationTexts}

TranslationResponses ==
    {Raises, Returns(None)} \cup {Returns(Str(t)) : t \in Texts}

\* json.loads(content): a TypeError for None, a JSONDecodeError for text
\* that is not JSON, else the parsed value
json_loads(content) ==
    IF content.type = "str" /\ "json" \in DOMAIN content
    THEN [raised |-> FALSE, value |-> content.json]
    ELSE [raised |-> TRUE, value |-> None]

-----------------------------------------------------------------------------
(* translate_report *)

LangDefault == "zh"

LangEnglish == "en"

LangJapanese == "ja"

\* the entries of the language select boxes
Languages == {LangDefault, LangEnglish, LangJapanese}

NoError == "None"

ErrApiKey == "API Key missing"

ErrCall == "translation call failed"

\* the language name put into the prompt
PromptLang(target_lang) ==
    CASE target_lang = LangEnglish  -> "English"
      [] target_lang = LangJapanese -> "Japanese"
      [] OTHER                      -> target_lang

\* mutant of translate_report: the identity shortcut is missing
translate_report_no_shortcut(text_data, target_lang, key, resp) ==
    IF key = ""
    THEN [content |-> None, error |-> ErrApiKey, requests |-> 0, lang |-> ""]
    ELSE IF resp.kind = "raise"
         THEN [content |-> None, error |-> ErrCall, requests |-> 1,
               lang |-> PromptLang(target_lang)]
         ELSE [content |-> resp.content, error |-> NoError, requests |-> 1,
               lang |-> PromptLang(target_lang)]

\* mutant of translate_report: a language that is none of the three is
\* refused
translate_report_rejects_unknown(text_data, target_lang, key, resp) ==
    IF key = ""
    THEN [content |-> None, error |-> ErrApiKey, requests |-> 0, lang |-> ""]
    ELSE IF target_lang = LangDefault
         THEN [content |-> Str(text_data), error |-> NoError, requests |-> 0,
               lang |-> ""]
         ELSE IF target_lang \notin {LangEnglish, LangJapanese}
         THEN [content |-> None, error |-> "language not recognised", requests |-> 0,
               lang |-> ""]
         ELSE IF resp.kind = "raise"
              THEN [content |-> None, error |-> ErrCall, requests |-> 1,
                    lang |-> PromptLang(target_lang)]
              ELSE [content |-> resp.content, error |-> NoError,
                    requests |-> 1, lang |-> PromptLang(target_lang)]

\* translate_report(text_data, target_lang, api_key) with the outcome resp
\* of the request, should one be issued: the pair (content, error) it
\* returns, the number of requests it issued and the language they named
translate_report(text_data, target_lang, key, resp) ==
    IF key = ""
    THEN [content |-> None, error |-> ErrApiKey, requests |-> 0, lang |-> ""]
    ELSE IF target_lang = LangDefault
         THEN [content |-> Str(text_data), error |-> NoError, requests |-> 0,
               lang |-> ""]
         ELSE IF resp.kind = "raise"
              THEN [content |-> None, error |-> ErrCall, requests |-> 1,
                    lang |-> PromptLang(target_lang)]
              ELSE [content |-> resp.content, error |-> NoError,
                    requests |-> 1, lang |-> PromptLang(target_lang)]

-----------------------------------------------------------------------------
(* The audit run: extraction request, then evaluation request *)

\* the session's audit_result at start
InitialAuditResult ==
    [extracted_data |-> None, evaluation_markdown |-> None,
     translated_data |-> None, translated_eval |-> None]

\* mutant of StoreAudit: the old translation is not cleared
StoreAuditKeepTranslation(ar, extracted_data, evaluation_markdown) ==
    [ar EXCEPT !.extracted_data = extracted_data,
               !.evaluation_markdown = evaluation_markdown]

\* the four assignments that end a run in which nothing raised
StoreAudit(ar, extracted_data, evaluation_markdown) ==
    [ar EXCEPT !.extracted_data = extracted_data,
               !.evaluation_markdown = evaluation_markdown,
               !.translated_data = None,
               !.translated_eval = None]

\* mutant of audit_run: the extracted data is stored as soon as it is parsed
audit_run_early_store(ar, r1, r2) ==
    IF r1.kind = "raise" \/ json_loads(r1.content).raised
    THEN [audit_result |-> ar, outcome |-> "error", requests |-> 1]
    ELSE IF r2.kind = "raise"
         THEN [audit_result |->
                   [ar EXCEPT !.extracted_data = json_loads(r1.content).value],
               outcome |-> "error", requests |-> 2]
         ELSE [audit_result |->
                   StoreAudit(ar, json_loads(r1.content).value, r2.content),
               outcome |-> "stored", requests |-> 2]

\* the try block of the audit run, r1 the outcome of the extraction request
\* and r2 that of the evaluation request: whatever raises is caught and
\* reported, else the results are stored
audit_run(ar, r1, r2) ==
    IF r1.kind = "raise"
    THEN [audit_result |-> ar, outcome |-> "error", requests |-> 1]
    ELSE IF json_loads(r1.content).raised
         THEN [audit_result |-> ar, outcome |-> "error", requests |-> 1]
         ELSE IF r2.kind = "raise"
              THEN [audit_result |-> ar, outcome |-> "error", requests |-> 2]
              ELSE [audit_result |->
                        StoreAudit(ar, json_loads(r1.content).value,
                                   r2.content),
                    outcome |-> "stored", requests |-> 2]

-----------------------------------------------------------------------------
(* The translation run of the audit report *)

\* d.get(k, default) on the items of a dict
Get(items, k, default) == IF k \in DOMAIN items THEN items[k] ELSE default

EmptyItems == [k \in {} |-> "v"]

\* the f-string data_markdown: its literal lines and the five values read
\* with .get(..., "N/A")
data_markdown(items) ==
    <<"# core",
      "## D1/D2:", Get(items, "D1_TeamLeader", "N/A"), "|",
          Get(Get(items, "D2_5W2H", EmptyItems), "What", "N/A"),
      "## D4:", Get(Get(items, "D4_RootCause", EmptyItems),
                    "OccurrenceRootCause", "N/A"), "|",
          Get(Get(items, "D4_RootCause", EmptyItems),
              "EscapeRootCause", "N/A"),
      "## D8:", Get(items, "D8_Conclusion", "N/A")>>

full_content_to_translate(ar) ==
    data_markdown(ar.extracted_data.items) \o SEP
        \o ar.evaluation_markdown.chars

\* mutant of StoreTranslated: the merged text is stored as translated_data
StoreTranslatedSwapped(ar, parts, translated_content) ==
    IF Len(parts) = 2
    THEN [ar EXCEPT !.translated_data = Str(parts[1]),
                    !.translated_eval = Str(parts[2])]
    ELSE [ar EXCEPT !.translated_data = translated_content,
                    !.translated_eval = None]

\* the two branches on len(parts) that store the translation
StoreTranslated(ar, parts, translated_content) ==
    IF Len(parts) = 2
    THEN [ar EXCEPT !.translated_data = Str(parts[1]),
                    !.translated_eval = Str(parts[2])]
    ELSE [ar EXCEPT !.translated_data = None,
                    !.translated_eval = translated_content]

\* mutant of ClearTranslated: a failed run leaves the old translation
ClearTranslatedNot(ar) == ar

\* the error branch of the translation run
ClearTranslated(ar) ==
    [ar EXCEPT !.translated_data = None, !.translated_eval = None]

\* the body of the translate button with a key present, resp the outcome of
\* the request: the new audit_result, what the run showed, and the text
\* translate_report returned.  outcome "fault" is an exception nothing
\* catches: .get on a value that is no dict, .split on None
translate_audit(ar, target_lang_text, key, resp) ==
    IF ar.extracted_data.type # "dict"
    THEN [audit_result |-> ar, outcome |-> "fault", content |-> None,
          requests |-> 0, msgs |-> {}]
    ELSE LET r == translate_report(full_content_to_translate(ar),
                                   target_lang_text, key, resp)
         IN  IF r.error # NoError
             THEN [audit_result |-> ClearTranslated(ar), outcome |-> "error",
                   content |-> None, requests |-> r.requests,
                   msgs |-> {"error"}]
             ELSE IF r.content.type # "str"
                  THEN [audit_result |-> ar, outcome |-> "fault",
                        content |-> None, requests |-> r.requests,
                        msgs |-> {}]
                  ELSE LET parts == Split(r.content.chars)
                       IN  [audit_result |->
                                StoreTranslated(ar, parts, r.content),
                            outcome |-> IF Len(parts) = 2 THEN "split"
                                        ELSE "merged",
                            content |-> r.content,
                            requests |-> r.requests,
                            msgs |-> IF Len(parts) = 2 THEN {"success"}
                                     ELSE {"warning", "success"}]

-----------------------------------------------------------------------------
(* What a render shows and exports *)

\* `if extracted_data and evaluation_markdown:` the results section is drawn
ResultsShown(ar) ==
    Truthy(ar.extracted_data) /\ Truthy(ar.evaluation_markdown)

is_translated_content(ar, target_lang_text) ==
    target_lang_text # LangDefault /\ ar.translated_eval # None

\* mutant of View: the branch asks whether translated_data is None
ViewOnNone(ar, target_lang_text) ==
    IF ~ResultsShown(ar) THEN "hidden"
    ELSE IF is_translated_content(ar, target_lang_text)
         THEN IF ar.translated_data = None THEN "split" ELSE "merged"
         ELSE "original"

\* the branch of the results section that is drawn: "split" shows
\* translated_data and translated_eval under two headings, "merged" shows
\* translated_eval under one, "original" shows the extracted data and the
\* evaluation; "hidden" when the section is not drawn
View(ar, target_lang_text) ==
    IF ~ResultsShown(ar) THEN "hidden"
    ELSE IF is_translated_content(ar, target_lang_text)
         THEN IF Truthy(ar.translated_data) THEN "split" ELSE "merged"
         ELSE "original"

export_data_for_word(ar, target_lang_text) ==
    CASE View(ar, target_lang_text) = "split"    -> ar.translated_data
      [] View(ar, target_lang_text) = "merged"   -> ar.translated_eval
      [] View(ar, target_lang_text) = "original" -> ar.extracted_data
      [] OTHER                                   -> None

export_eval_for_word(ar, target_lang_text) ==
    CASE View(ar, target_lang_text) = "split"    -> ar.translated_eval
      [] View(ar, target_lang_text) = "merged"   -> Str(<<>>)
      [] View(ar, target_lang_text) = "original" -> ar.evaluation_markdown
      [] OTHER                                   -> None

\* create_word_document adds the "merged" paragraph: is_translated and
\* evaluation_markdown == ""
WordMergedParagraph(ar, target_lang_text) ==
    /\ ResultsShown(ar)
    /\ is_translated_content(ar, target_lang_text)
    /\ export_eval_for_word(ar, target_lang_text) = Str(<<>>)

-----------------------------------------------------------------------------
(* get_action_status *)

Years == {2024, 2025}

IsLeap(y) == y % 4 = 0 /\ (y % 100 # 0 \/ y % 400 = 0)

DaysInMonth(y, m) ==
    CASE m \in {4, 6, 9, 11} -> 30
      [] m = 2               -> IF IsLeap(y) THEN 29 ELSE 28
      [] OTHER               -> 31

\* a string made of a year, a month and a day number joined by "-"
DateStr(y, m, d) == [type |-> "str", ymd |-> <<y, m, d>>]

IsDate(y, m, d) == m \in 1..12 /\ d \in 1..DaysInMonth(y, m)

RECURSIVE DaysBeforeMonth(_, _)
DaysBeforeMonth(y, m) ==
    IF m = 1 THEN 0 ELSE DaysBeforeMonth(y, m - 1) + DaysInMonth(y, m - 1)

RECURSIVE DaysBeforeYear(_)
DaysBeforeYear(y) ==
    IF y = 2024 THEN 0
    ELSE DaysBeforeYear(y - 1) + (IF IsLeap(y - 1) THEN 366 ELSE 365)

\* date.toordinal, counted from the first day of 2024
Ordinal(y, m, d) == DaysBeforeYear(y) + DaysBeforeMonth(y, m) + d

\* datetime.strptime(s, '%Y-%m-%d').date(): a ValueError for a string of
\* another form or naming no day of the calendar, a TypeError for None
strptime(s) ==
    IF s.type = "str" /\ "ymd" \in DOMAIN s
       /\ IsDate(s.ymd[1], s.ymd[2], s.ymd[3])
    THEN [raised |-> FALSE, day |-> Ordinal(s.ymd[1], s.ymd[2], s.ymd[3])]
    ELSE [raised |-> TRUE, day |-> 0]

\* the display texts: "done", "overdue / to verify", "due soon",
\* "in progress", "date not set"
LabelDone == "done"

LabelOverdue == "overdue"

LabelDueSoon == "due soon"

LabelInProgress == "in progress"

LabelNoDate == "date not set"

StatusResult(class, label) == [raised |-> FALSE, class |-> class, label |-> label]

\* mutant of get_action_status: the date is looked at before the status
get_action_status_date_first(action_date_str, current_status, today) ==
    IF strptime(action_date_str).raised
    THEN IF current_status = "Completed"
         THEN StatusResult("Completed", LabelDone)
         ELSE StatusResult("Open", LabelNoDate)
    ELSE IF strptime(action_date_str).day < today
         THEN StatusResult("Overdue", LabelOverdue)
         ELSE IF current_status = "Completed"
              THEN StatusResult("Completed", LabelDone)
              ELSE IF strptime(action_date_str).day <= today + 7
                   THEN StatusResult("DueSoon", LabelDueSoon)
                   ELSE StatusResult("Open", LabelInProgress)

\* mutant of get_action_status: the day a week ahead is no longer due soon
get_action_status_short_week(action_date_str, current_status, today) ==
    IF current_status = "Completed"
    THEN StatusResult("Completed", LabelDone)
    ELSE IF strptime(action_date_str).raised
         THEN StatusResult("Open", LabelNoDate)
         ELSE IF strptime(action_date_str).day < today
              THEN StatusResult("Overdue", LabelOverdue)
              ELSE IF strptime(action_date_str).day < today + 7
                   THEN StatusResult("DueSoon", LabelDueSoon)
                   ELSE StatusResult("Open", LabelInProgress)

\* mutant of get_action_status: the except clause catches nothing
get_action_status_no_except(action_date_str, current_status, today) ==
    IF current_status = "Completed"
    THEN StatusResult("Completed", LabelDone)
    ELSE IF strptime(action_date_str).raised
         THEN [raised |-> TRUE, class |-> "", label |-> ""]
         ELSE IF strptime(action_date_str).day < today
              THEN StatusResult("Overdue", LabelOverdue)
              ELSE IF strptime(action_date_str).day <= today + 7
                   THEN StatusResult("DueSoon", LabelDueSoon)
                   ELSE StatusResult("Open", LabelInProgress)

\* get_action_status(action_date_str, current_status), with date.today()
\* as the argument today
get_action_status(action_date_str, current_status, today) ==
    IF current_status = "Completed"
    THEN StatusResult("Completed", LabelDone)
    ELSE IF strptime(action_date_str).raised
         THEN StatusResult("Open", LabelNoDate)
         ELSE IF strptime(action_date_str).day < today
              THEN StatusResult("Overdue", LabelOverdue)
              ELSE IF strptime(action_date_str).day <= today + 7
                   THEN StatusResult("DueSoon", LabelDueSoon)
                   ELSE StatusResult("Open", LabelInProgress)

-----------------------------------------------------------------------------
(* The authoring mode: the report and the D4 tab *)

\* d4.whys has five slots: ['', '', '', '', ''], range(5)
NumWhys == 5

Num(n) == [type |-> "int", n |-> n]

\* a JSON array with its elements
ListOf(elems) == [type |-> "list", elems |-> elems]

EmptyStr == Str(<<>>)

\* st.session_state.data as first set, with the sections the model follows
InitialData ==
    [d2 |-> [what |-> EmptyStr],
     d4 |-> [whys |-> [i \in 1..NumWhys |-> EmptyStr],
             root_cause |-> EmptyStr,
             ai_analysis |-> None],
     d5 |-> <<>>]

\* the i-th entry of a suggested path, and a suggested summary
WhyText(i) == Str(<<"w", ToString(i)>>)

WhyList(n) == [i \in 1..n |-> WhyText(i)]

RootText == Str(<<"rc">>)

Suggestion(elems, rc) ==
    Dict([k \in {"five_whys", "root_cause"} |->
             IF k = "five_whys" THEN ListOf(elems) ELSE rc])

WithoutKey(v, k) == Dict([j \in DOMAIN v.items \ {k} |-> v.items[j]])

\* what json.loads can return for the content of an analysis response: the
\* object asked for with a path of any length, the same without one of its
\* two fields, a path holding a number, an empty object, an array, null
WellFormed == {Suggestion(WhyList(n), RootText) : n \in 0..MaxWhys}

AnalysisValues ==
    WellFormed
    \cup {WithoutKey(Suggestion(WhyList(2), RootText), k) :
             k \in {"five_whys", "root_cause"}}
    \cup {Suggestion(<<Num(3)>>, RootText),
          WithoutKey(Suggestion(<<Num(3)>>, RootText), "root_cause")}
    \cup {Dict(EmptyItems), List, None}

AnalysisResponses ==
    {Raises, Returns(None), Returns(Str(<<"a">>))}
    \cup {Returns(JsonText(v)) : v \in AnalysisValues}

\* the messages of the authoring mode: st.warning at 453, st.error at 458,
\* 482, 607 and 637
WarnD2 == "fill in D2 first"

ErrKeyD4 == "enter the API key (D4)"

ErrCallD4 == "AI call failed"

ErrKeyD8 == "enter the API key (D8)"

ErrTranslateD8 == "translation failed"

\* st.text_input(label, value=v) when the user has typed nothing: the value
\* cast to str
text_input(v) == IF v.type = "int" THEN Str(<<ToString(v.n)>>) ELSE v

\* what the user did to start a script run
NoEvent == [kind |-> "none"]

\* mutant of d4_analyse: the summary of the response is written at once
d4_analyse_fills_root(d4, key, resp) ==
    IF key = ""
    THEN [d4 |-> d4, requests |-> 0, msgs |-> {ErrKeyD4}, analysis |-> "nokey"]
    ELSE IF resp.kind = "raise" \/ json_loads(resp.content).raised
         THEN [d4 |-> d4, requests |-> 1, msgs |-> {ErrCallD4},
               analysis |-> "failed"]
         ELSE [d4 |-> [d4 EXCEPT
                         !.ai_analysis = json_loads(resp.content).value,
                         !.root_cause =
                             IF /\ json_loads(resp.content).value.type = "dict"
                                /\ "root_cause" \in DOMAIN
                                       json_loads(resp.content).value.items
                             THEN json_loads(resp.content).value.items["root_cause"]
                             ELSE @],
               requests |-> 1, msgs |-> {}, analysis |-> "stored"]

\* mutant of d4_analyse: the key is not looked at
d4_analyse_no_key_check(d4, key, resp) ==
    IF resp.kind = "raise" \/ json_loads(resp.content).raised
    THEN [d4 |-> d4, requests |-> 1, msgs |-> {ErrCallD4}, analysis |-> "failed"]
    ELSE [d4 |-> [d4 EXCEPT !.ai_analysis = json_loads(resp.content).value],
          requests |-> 1, msgs |-> {}, analysis |-> "stored"]

\* the analysis button, lines 456-482
d4_analyse(d4, key, resp) ==
    IF key = ""
    THEN [d4 |-> d4, requests |-> 0, msgs |-> {ErrKeyD4}, analysis |-> "nokey"]
    ELSE IF resp.kind = "raise" \/ json_loads(resp.content).raised
         THEN [d4 |-> d4, requests |-> 1, msgs |-> {ErrCallD4},
               analysis |-> "failed"]
         ELSE [d4 |-> [d4 EXCEPT !.ai_analysis = json_loads(resp.content).value],
               requests |-> 1, msgs |-> {}, analysis |-> "stored"]

\* the display of a suggestion reads ai_res['five_whys'], line 490
Displayable(v) == v.type = "dict" /\ "five_whys" \in DOMAIN v.items

AdoptedWhys(d4) ==
    [i \in 1..NumWhys |->
        IF i <= Len(d4.ai_analysis.items["five_whys"].elems)
        THEN d4.ai_analysis.items["five_whys"].elems[i]
        ELSE d4.whys[i]]

\* mutant of d4_adopt: the slots past the suggestion are blanked
d4_adopt_blanks_rest(d4) ==
    IF "root_cause" \notin DOMAIN d4.ai_analysis.items
    THEN [d4 |-> [d4 EXCEPT !.whys = AdoptedWhys(d4)], raised |-> TRUE]
    ELSE [d4 |-> [whys |-> [i \in 1..NumWhys |->
                               IF i <= Len(d4.ai_analysis.items["five_whys"].elems)
                               THEN AdoptedWhys(d4)[i] ELSE EmptyStr],
                  root_cause |-> d4.ai_analysis.items["root_cause"],
                  ai_analysis |-> None],
          raised |-> FALSE]

\* the adopt button, lines 493-498: the slots are written first, then
\* ai_res['root_cause'] is read, a KeyError when the field is missing
d4_adopt(d4) ==
    IF "root_cause" \notin DOMAIN d4.ai_analysis.items
    THEN [d4 |-> [d4 EXCEPT !.whys = AdoptedWhys(d4)], raised |-> TRUE]
    ELSE [d4 |-> [whys |-> AdoptedWhys(d4),
                  root_cause |-> d4.ai_analysis.items["root_cause"],
                  ai_analysis |-> None],
          raised |-> FALSE]

\* the record table, lines 504-511
d4_edit(d4, ev) ==
    [d4 EXCEPT
       !.whys = [i \in 1..NumWhys |->
                    IF ev.kind = "why" /\ ev.slot = i
                    THEN ev.value ELSE text_input(d4.whys[i])],
       !.root_cause = text_input(@)]

\* the D4 tab, lines 445-511. halt says how the tab ended the script run:
\* "none" (it did not), "fault" (an exception nobody catches), "rerun"
d4_section(d, key, ev, resp) ==
    IF ~Truthy(d.d2.what)
    THEN [data |-> [d EXCEPT !.d4 = d4_edit(@, ev)], halt |-> "none",
          requests |-> 0, msgs |-> {WarnD2}, analysis |-> "none"]
    ELSE LET a == IF ev.kind = "analyse"
                  THEN d4_analyse(d.d4, key, resp)
                  ELSE [d4 |-> d.d4, requests |-> 0, msgs |-> {},
                        analysis |-> "none"]
         IN  IF ~Truthy(a.d4.ai_analysis)
             THEN [data |-> [d EXCEPT !.d4 = d4_edit(a.d4, ev)],
                   halt |-> "none", requests |-> a.requests,
                   msgs |-> a.msgs, analysis |-> a.analysis]
             ELSE IF ~Displayable(a.d4.ai_analysis)
             THEN [data |-> [d EXCEPT !.d4 = a.d4], halt |-> "fault",
                   requests |-> a.requests, msgs |-> a.msgs,
                   analysis |-> a.analysis]
             ELSE IF ev.kind = "adopt"
             THEN [data |-> [d EXCEPT !.d4 = d4_adopt(a.d4).d4],
                   halt |-> IF d4_adopt(a.d4).raised THEN "fault" ELSE "rerun",
                   requests |-> 0, msgs |-> {}, analysis |-> "none"]
             ELSE [data |-> [d EXCEPT !.d4 = d4_edit(a.d4, ev)],
                   halt |-> "none", requests |-> a.requests,
                   msgs |-> a.msgs, analysis |-> a.analysis]

\* the report text given to translate_report by the D8 tab, lines 610-631
markdown_content(d) == <<"#">> \o d.d2.what.chars \o d.d4.root_cause.chars

\* the translation of the D8 tab, lines 605-651: it follows the select box
\* of line 573 with no button in between
d8_section(d, key, lang, resp) ==
    IF lang = LangDefault
    THEN [requests |-> 0, msgs |-> {}]
    ELSE IF key = ""
         THEN [requests |-> 0, msgs |-> {ErrKeyD8}]
         ELSE [requests |->
                   translate_report(markdown_content(d), lang, key, resp).requests,
               msgs |->
                   IF translate_report(markdown_content(d), lang, key,
                                       resp).error # NoError
                   THEN {ErrTranslateD8} ELSE {}]

\* the entry the add button appends, lines 521-525
NewAction(ev) == [action |-> ev.action, date |-> ev.date, status |-> "Open"]

\* the checkbox of entry i, line 535: ticked when the entry is Completed,
\* unless the user has just clicked it
is_completed(d5, i, ev) ==
    IF ev.kind = "toggle" /\ ev.index = i
    THEN d5[i].status # "Completed"
    ELSE d5[i].status = "Completed"

\* the checkbox loop, lines 533-551: the entries keep their place
CheckboxLoop(d5, ev) ==
    [i \in 1..Len(d5) |->
        [d5[i] EXCEPT !.status =
            IF is_completed(d5, i, ev) THEN "Completed"
            ELSE IF @ = "Completed" THEN "Open" ELSE @]]

\* mutant of d5_section: the new entry is put first
d5_section_adds_first(d5, ev) ==
    IF ev.kind = "add" /\ Truthy(ev.action)
    THEN [d5 |-> <<NewAction(ev)>> \o d5, halt |-> "rerun"]
    ELSE [d5 |-> CheckboxLoop(d5, ev), halt |-> "none"]

\* the D5/D6 tab, lines 513-551: the add button appends and reruns, else
\* the checkbox loop sets each status
d5_section(d5, ev) ==
    IF ev.kind = "add" /\ Truthy(ev.action)
    THEN [d5 |-> Append(d5, NewAction(ev)), halt |-> "rerun"]
    ELSE [d5 |-> CheckboxLoop(d5, ev), halt |-> "none"]

\* one pass of the script in authoring mode, lines 391-680: every tab is
\* rendered, D2 (420-426) before D4, D4 before D5, D5 before D8; a tab
\* that halts the script keeps the later tabs from running
script_run(d, key, lang, ev, resp4, resp8) ==
    LET r4 == d4_section([d EXCEPT !.d2.what = IF ev.kind = "what"
                                               THEN ev.value ELSE @],
                         key, ev, resp4)
        d5 == [r4.data EXCEPT !.d5 = d5_section(@, ev).d5]
    IN  IF r4.halt # "none"
        THEN [data |-> r4.data, halt |-> r4.halt, requests |-> r4.requests,
              msgs |-> r4.msgs, analysis |-> r4.analysis, d8 |-> 0]
        ELSE IF d5_section(r4.data.d5, ev).halt # "none"
        THEN [data |-> d5, halt |-> d5_section(r4.data.d5, ev).halt,
              requests |-> r4.requests, msgs |-> r4.msgs,
              analysis |-> r4.analysis, d8 |-> 0]
        ELSE [data |-> d5, halt |-> "none",
              requests |-> r4.requests
                           + d8_section(d5, key, lang, resp8).requests,
              msgs |-> r4.msgs \cup d8_section(d5, key, lang, resp8).msgs,
              analysis |-> r4.analysis,
              d8 |-> d8_section(d5, key, lang, resp8).requests]

\* a script run and, when it ends in st.rerun() (lines 499, 526), the run that
\* follows at once with no event
authoring_run(d, key, lang, ev, resp4, resp8) ==
    LET r == script_run(d, key, lang, ev, resp4, resp8)
    IN  IF r.halt = "rerun"
        THEN [script_run(r.data, key, lang, NoEvent, resp4, resp8)
                EXCEPT !.requests = @ + r.requests,
                       !.msgs = @ \cup r.msgs]
        ELSE r

-----------------------------------------------------------------------------
(* The session *)

ApiKeys == {"", "sk"}

\* no button was pressed in the last script run
NoRun ==
    [op |-> "render", outcome |-> "none", content |-> None, requests |-> 0,
     msgs |-> {}, prior_translated |-> FALSE]

NoCall == [called |-> FALSE]

\* the extraction + evaluation pair a stored translation was made from
PairOf(ar) ==
    [extracted_data |-> ar.extracted_data,
     evaluation_markdown |-> ar.evaluation_markdown]

HasTranslation(ar) == ar.translated_data # None \/ ar.translated_eval # None

Init ==
    /\ api_key = ""
    /\ audit_result = InitialAuditResult
    /\ audit_lang_select = LangDefault
    /\ last = NoRun
    /\ derived_from = None
    /\ tr = NoCall
    /\ data = InitialData
    /\ translation_lang = LangDefault
    /\ gs = NoCall

\* the sidebar's key field is edited
SetApiKey ==
    /\ \E k \in ApiKeys : api_key' = k
    /\ last' = NoRun
    /\ UNCHANGED <<audit_result, audit_lang_select, derived_from, tr, authoring>>

\* another entry of the select box of the results section is chosen
SelectAuditLang ==
    /\ ResultsShown(audit_result)
    /\ \E l \in Languages : audit_lang_select' = l
    /\ last' = NoRun
    /\ UNCHANGED <<api_key, audit_result, derived_from, tr, authoring>>

\* the audit button is pressed without a key: st.error and st.stop
AuditNoKey ==
    /\ api_key = ""
    /\ last' = [op |-> "audit", outcome |-> "no_api_key", content |-> None,
                requests |-> 0, msgs |-> {"error"},
                prior_translated |-> HasTranslation(audit_result)]
    /\ UNCHANGED <<api_key, audit_result, audit_lang_select, derived_from, tr, authoring>>

\* the audit button is pressed with a key and a report text
AuditRun ==
    /\ api_key # ""
    /\ \E r1 \in ExtractionResponses, r2 \in EvaluationResponses :
         \E run \in {audit_run(audit_result, r1, r2)} :
             /\ audit_result' = run.audit_result
             /\ last' = [op |-> "audit", outcome |-> run.outcome,
                         content |-> None, requests |-> run.requests,
                         msgs |-> IF run.outcome = "error" THEN {"error"}
                                  ELSE {},
                         prior_translated |-> HasTranslation(audit_result)]
             /\ derived_from' = IF HasTranslation(run.audit_result)
                                THEN derived_from ELSE None
    /\ UNCHANGED <<api_key, audit_lang_select, tr, authoring>>

\* the translate button is pressed without a key: c_btn.error
TranslateNoKey ==
    /\ ResultsShown(audit_result)
    /\ api_key = ""
    /\ last' = [op |-> "translate", outcome |-> "no_api_key",
                content |-> None, requests |-> 0, msgs |-> {"error"},
                prior_translated |-> HasTranslation(audit_result)]
    /\ UNCHANGED <<api_key, audit_result, audit_lang_select, derived_from, tr, authoring>>

\* the translate button is pressed with a key
TranslateRun ==
    /\ ResultsShown(audit_result)
    /\ api_key # ""
    /\ \E resp \in TranslationResponses :
         \E run \in {translate_audit(audit_result, audit_lang_select,
                                     api_key, resp)} :
             /\ audit_result' = run.audit_result
             /\ last' = [op |-> "translate", outcome |-> run.outcome,
                         content |-> run.content, requests |-> run.requests,
                         msgs |-> run.msgs,
                         prior_translated |-> HasTranslation(audit_result)]
             /\ derived_from' =
                    CASE run.outcome \in {"split", "merged"} ->
                             PairOf(audit_result)
                      [] HasTranslation(run.audit_result) -> derived_from
                      [] OTHER -> None
    /\ UNCHANGED <<api_key, audit_lang_select, tr, authoring>>

Next ==
    \/ SetApiKey
    \/ SelectAuditLang
    \/ AuditNoKey
    \/ AuditRun
    \/ TranslateNoKey
    \/ TranslateRun

Spec == Init /\ [][Next]_vars

-----------------------------------------------------------------------------
(* translate_report on its own: every argument drawn from a bounded set *)

\* a target language that is none of the three of the select boxes
LangOther == "de"

InitTranslate ==
    /\ api_key = ""
    /\ audit_result = InitialAuditResult
    /\ audit_lang_select = LangDefault
    /\ last = NoRun
    /\ derived_from = None
    /\ data = InitialData
    /\ translation_lang = LangDefault
    /\ gs = NoCall
    /\ \E t \in Texts, l \in Languages \cup {LangOther}, k \in ApiKeys :
         tr = [called |-> FALSE, text_data |-> t, target_lang |-> l,
               key |-> k]

CallTranslateReport ==
    /\ ~tr.called
    /\ \E resp \in TranslationResponses :
         tr' = [called |-> TRUE, text_data |-> tr.text_data,
                target_lang |-> tr.target_lang, key |-> tr.key,
                resp |-> resp,
                result |-> translate_report(tr.text_data, tr.target_lang,
                                            tr.key, resp)]
    /\ UNCHANGED <<api_key, audit_result, audit_lang_select, last,
                   derived_from, authoring>>

NextTranslate == CallTranslateReport

SpecTranslate == InitTranslate /\ [][NextTranslate]_vars

-----------------------------------------------------------------------------
(* Properties *)

Absent(v) == v = None

\* the last script run was a translation run in which translate_report
\* returned a text
TranslationReturnedText ==
    /\ last.op = "translate"
    /\ last.content.type = "str"

AuditStored == last.op = "audit" /\ last.outcome = "stored"

\* C1: in every reachable state extracted_data is present if and only if
\* evaluation_markdown is present.
C1_ExtractedIffEvaluation ==
    Absent(audit_result.extracted_data)
        <=> Absent(audit_result.evaluation_markdown)

\* C2: right after an audit run that stored its results, translated_data
\* and translated_eval are both absent; and a translation that is held was
\* made from the extraction + evaluation pair that is held.
C2_AuditClearsTranslation ==
    /\ AuditStored =>
          /\ Absent(audit_result.translated_data)
          /\ Absent(audit_result.translated_eval)
    /\ HasTranslation(audit_result) => derived_from = PairOf(audit_result)

\* C2: an audit run has stored new results over a session that held a
\* translation.
C2_Witness ==
    /\ AuditStored
    /\ last.prior_translated
    /\ ~HasTranslation(audit_result)

\* C3, as claimed: translated_data and translated_eval are in every
\* reachable state both present or both absent.
C3_TranslatedBothOrNeither ==
    Absent(audit_result.translated_data)
        <=> Absent(audit_result.translated_eval)

\* C3, amended: translated_data is present only together with
\* translated_eval, and translated_eval is held without translated_data only
\* as the merged text of a run that lost the delimiter: it contains none.
C3_TranslatedDataOnlyWithEval ==
    /\ ~Absent(audit_result.translated_data) =>
           ~Absent(audit_result.translated_eval)
    /\ (/\ Absent(audit_result.translated_data)
        /\ ~Absent(audit_result.translated_eval)) =>
           ~Contains(audit_result.translated_eval.chars)

\* C3: the merged form is held: translated_eval without translated_data.
C3_Witness ==
    /\ Absent(audit_result.translated_data)
    /\ ~Absent(audit_result.translated_eval)
    /\ audit_result.translated_eval.chars # <<>>

TranslationFailed == last.op = "translate" /\ last.outcome = "error"

\* C4, as claimed: a translation run that fails leaves all four fields of
\* audit_result as they were.
C4_FailedTranslationKeepsAll ==
    [][TranslationFailed' => audit_result' = audit_result]_vars

\* C4, amended: a translation run that fails leaves extracted_data and
\* evaluation_markdown as they were and resets translated_data and
\* translated_eval to absent.
C4_FailedTranslationKeepsAudit ==
    [][TranslationFailed' =>
          /\ audit_result'.extracted_data = audit_result.extracted_data
          /\ audit_result'.evaluation_markdown
                 = audit_result.evaluation_markdown
          /\ Absent(audit_result'.translated_data)
          /\ Absent(audit_result'.translated_eval)]_vars

\* C4: a translation run has failed in a session that held a translation.
C4_Witness ==
    /\ TranslationFailed
    /\ last.prior_translated
    /\ last.requests = 1

AuditFailed == last.op = "audit" /\ last.outcome = "error"

\* C5: an audit run that fails (extraction request, JSON parsing or
\* evaluation request) leaves all four fields of audit_result as they were.
C5_FailedAuditKeepsAll ==
    [][AuditFailed' => audit_result' = audit_result]_vars

\* C5: the evaluation request has failed, after a parsed extraction, in a
\* session that holds an earlier result and its translation.
C5_Witness ==
    /\ AuditFailed
    /\ last.requests = 2
    /\ ResultsShown(audit_result)
    /\ HasTranslation(audit_result)

\* what translate_report returns when it takes the identity shortcut
IdentityResult ==
    /\ tr.result.content = Str(tr.text_data)
    /\ tr.result.error = NoError
    /\ tr.result.requests = 0

\* C6, as claimed: with the default language as target, translate_report
\* returns its input text and no error and issues no request, whatever its
\* other arguments.
C6_DefaultLanguageIdentity ==
    (tr.called /\ tr.target_lang = LangDefault) => IdentityResult

\* C6, amended: with the default language as target and a non-empty key,
\* translate_report returns its input text and no error and issues no
\* request; with an empty key it returns no text and the missing-key error,
\* and issues no request either.
C6_DefaultLanguageIdentityWithKey ==
    (tr.called /\ tr.target_lang = LangDefault) =>
        /\ tr.key # "" => IdentityResult
        /\ tr.key = "" =>
              /\ tr.result.content = None
              /\ tr.result.error = ErrApiKey
              /\ tr.result.requests = 0

\* C6: translate_report was called with the default language, a key and a
\* text that holds a delimiter.
C6_Witness ==
    /\ tr.called
    /\ tr.target_lang = LangDefault
    /\ tr.key # ""
    /\ Contains(tr.text_data)
    /\ IdentityResult

\* the text before the first delimiter of t, and the text after it
Before(t) == SubSeq(t, 1, Find(t) - 1)

After(t) == SubSeq(t, Find(t) + Len(SEP), Len(t))

\* C7: when the translated text holds the delimiter exactly once,
\* translated_data is the text before it and translated_eval the text after
\* it, neither holds the delimiter, and the render does not show them as one
\* merged section.
C7_OneDelimiterSplitAndShown ==
    (TranslationReturnedText /\ Count(last.content.chars) = 1) =>
        /\ audit_result.translated_data = Str(Before(last.content.chars))
        /\ audit_result.translated_eval = Str(After(last.content.chars))
        /\ ~Contains(Before(last.content.chars))
        /\ ~Contains(After(last.content.chars))
        /\ View(audit_result, audit_lang_select) # "merged"

\* C8: when the translated text holds no delimiter the run is no error: the
\* whole text is kept as one merged result, the warning is shown, and the
\* render and the Word export present it as one section.
C8_NoDelimiterMerged ==
    (TranslationReturnedText /\ Count(last.content.chars) = 0) =>
        /\ last.outcome = "merged"
        /\ "error" \notin last.msgs
        /\ "warning" \in last.msgs
        /\ Absent(audit_result.translated_data)
        /\ audit_result.translated_eval = last.content
        /\ View(audit_result, audit_lang_select) = "merged"
        /\ export_data_for_word(audit_result, audit_lang_select)
               = last.content
        /\ export_eval_for_word(audit_result, audit_lang_select) = Str(<<>>)
        /\ WordMergedParagraph(audit_result, audit_lang_select)

\* C8: a translation run returned a non-empty text without the delimiter.
C8_Witness ==
    /\ TranslationReturnedText
    /\ Count(last.content.chars) = 0
    /\ last.content.chars # <<>>
    /\ last.outcome = "merged"

\* C9, as claimed: when the translated text holds the delimiter more than
\* once, the result is the merged one, with the warning.
C9_ManyDelimitersMerged ==
    (TranslationReturnedText /\ Count(last.content.chars) >= 2) =>
        /\ last.outcome = "merged"
        /\ "warning" \in last.msgs
        /\ Absent(audit_result.translated_data)
        /\ audit_result.translated_eval = last.content

\* C9, amended: when the translated text holds the delimiter more than
\* once, it is split at the first one only: translated_data is the text
\* before it, translated_eval all the text after it, later delimiters
\* included, and no warning is shown.
C9_ManyDelimitersSplitAtFirst ==
    (TranslationReturnedText /\ Count(last.content.chars) >= 2) =>
        /\ last.outcome = "split"
        /\ "warning" \notin last.msgs
        /\ audit_result.translated_data = Str(Before(last.content.chars))
        /\ audit_result.translated_eval = Str(After(last.content.chars))
        /\ Contains(audit_result.translated_eval.chars)

\* C9: a translation run returned a text with two delimiters and text
\* before the first.
C9_Witness ==
    /\ TranslationReturnedText
    /\ Count(last.content.chars) >= 2
    /\ Truthy(audit_result.translated_data)

\* every key of the schema, the nested ones included, is in the dict
HasEverySchemaKey(d) ==
    /\ SchemaKeys \subseteq DOMAIN d.items
    /\ D2Keys \subseteq DOMAIN d.items["D2_5W2H"]
    /\ D4Keys \subseteq DOMAIN d.items["D4_RootCause"]

\* C10: after an audit run that stored a JSON object, the stored
\* extracted_data has every key of the schema.
C10_StoredReportHasEveryKey ==
    (AuditStored /\ audit_result.extracted_data.type = "dict") =>
        HasEverySchemaKey(audit_result.extracted_data)

-----------------------------------------------------------------------------
(* get_action_status called on its own *)

StatusMonths == {0, 1, 2, 3, 12, 13}

\* date strings of the right form, naming a day of the calendar or not, and
\* strings of another form
StatusDateStrings ==
    {DateStr(y, m, d) : y \in Years, m \in StatusMonths, d \in 0..MaxDay}
    \cup {EmptyStr, Str(<<"N/A">>)}

\* the days date.today() returns: the ends of February and of December
Todays ==
    {Ordinal(t[1], t[2], t[3]) :
        t \in {u \in Years \X {2, 12} \X (22..31) : IsDate(u[1], u[2], u[3])}}

StoredStatuses == {"Open", "Completed", "N/A"}

InitStatus ==
    /\ api_key = ""
    /\ audit_result = InitialAuditResult
    /\ audit_lang_select = LangDefault
    /\ last = NoRun
    /\ derived_from = None
    /\ tr = NoCall
    /\ data = InitialData
    /\ translation_lang = LangDefault
    /\ \E s \in StatusDateStrings, c \in StoredStatuses, t \in Todays :
           gs = [called |-> FALSE, action_date_str |-> s,
                 current_status |-> c, today |-> t]

CallGetActionStatus ==
    /\ ~gs.called
    /\ gs' = [called |-> TRUE, action_date_str |-> gs.action_date_str,
              current_status |-> gs.current_status, today |-> gs.today,
              result |-> get_action_status(gs.action_date_str,
                                           gs.current_status, gs.today)]
    /\ UNCHANGED <<api_key, last, auditing, data, translation_lang>>

NextStatus == CallGetActionStatus

SpecStatus == InitStatus /\ [][NextStatus]_vars

\* C13: a stored status of Completed gives ("Completed", done label) for
\* every due-date string, parseable or not, and every current date
C13_CompletedWins ==
    (gs.called /\ gs.current_status = "Completed")
        => gs.result = StatusResult("Completed", LabelDone)

\* a Completed action whose due date has passed, and one with no date
C13_Witness ==
    /\ gs.called
    /\ gs.current_status = "Completed"
    /\ ~strptime(gs.action_date_str).raised
    /\ strptime(gs.action_date_str).day < gs.today
    /\ gs.result.class = "Completed"

Due == strptime(gs.action_date_str).day

\* C14: for a status other than Completed and a parseable due date the
\* result is Overdue exactly when due < today, DueSoon exactly when
\* today <= due <= today + 7, and Open "in progress" exactly when
\* due > today + 7
C14_ThreeBands ==
    (/\ gs.called
     /\ gs.current_status # "Completed"
     /\ ~strptime(gs.action_date_str).raised)
        => /\ ~gs.result.raised
           /\ gs.result.class \in {"Overdue", "DueSoon", "Open"}
           /\ (gs.result = StatusResult("Overdue", LabelOverdue))
                  <=> (Due < gs.today)
           /\ (gs.result = StatusResult("DueSoon", LabelDueSoon))
                  <=> (gs.today <= Due /\ Due <= gs.today + 7)
           /\ (gs.result = StatusResult("Open", LabelInProgress))
                  <=> (Due > gs.today + 7)

\* an open action due exactly seven days ahead, across the end of a year
C14_Witness ==
    /\ gs.called
    /\ gs.current_status = "Open"
    /\ ~strptime(gs.action_date_str).raised
    /\ Due = gs.today + 7
    /\ gs.action_date_str.ymd[1] = 2025
    /\ gs.action_date_str.ymd[2] = 1
    /\ gs.result.class = "DueSoon"

\* C15: a date string that does not parse, with a stored status of Open,
\* gives ("Open", "date not set" label) and no exception leaves the function
C15_BadDateIsOpen ==
    (/\ gs.called
     /\ gs.current_status = "Open"
     /\ strptime(gs.action_date_str).raised)
        => gs.result = StatusResult("Open", LabelNoDate)

\* a string of the right form naming the 29th of February of 2025
C15_Witness ==
    /\ gs.called
    /\ gs.current_status = "Open"
    /\ gs.action_date_str = DateStr(2025, 2, 29)
    /\ gs.result.label = LabelNoDate

-----------------------------------------------------------------------------
(* translate_report and a language it does not know *)

UnknownLanguage == tr.called /\ tr.target_lang \notin Languages

\* C19 as stated: for a target language that is none of the recognised ones
\* translate_report returns no text and an error, and issues no request
C19_UnknownLanguageFails ==
    UnknownLanguage
        => /\ tr.result.content = None
           /\ tr.result.error # NoError
           /\ tr.result.requests = 0

\* C19: with a key and a target language that is none of the recognised
\* ones translate_report issues one request whose prompt names the language
\* as given, and returns what the request returns: its content and no
\* error, or no text and the call error when the request raises; without a
\* key it returns the key error and issues no request
C19_UnknownLanguagePassedOn ==
    UnknownLanguage
        => IF tr.key = ""
           THEN /\ tr.result.content = None
                /\ tr.result.error = ErrApiKey
                /\ tr.result.requests = 0
           ELSE /\ tr.result.requests = 1
                /\ tr.result.lang = tr.target_lang
                /\ IF tr.resp.kind = "raise"
                   THEN tr.result.content = None /\ tr.result.error = ErrCall
                   ELSE /\ tr.result.content = tr.resp.content
                        /\ tr.result.error = NoError

\* a translation into a language outside the three was returned
C19_Witness ==
    /\ UnknownLanguage
    /\ tr.key # ""
    /\ tr.result.error = NoError
    /\ tr.result.content.type = "str"
    /\ tr.result.requests = 1

-----------------------------------------------------------------------------
(* The authoring mode: one action per event, each a whole script run *)

\* the slots of the record table the user types into, and what is typed
EditSlots == {4}

EditTexts == {Str(<<"m">>)}

WhatTexts == {EmptyStr, Str(<<"p">>)}

D8Responses == {Raises, Returns(Str(<<"a">>))}

\* the response of the D8 request is drawn when one is issued
D8ResponsesFor(key, lang) ==
    IF key # "" /\ lang # LangDefault THEN D8Responses ELSE {Raises}

\* the last script run raised an exception in the D4 tab, so the record
\* table, the later tabs and their widgets were not rendered
Faulted == last.outcome = "fault"

\* the suggestion is on screen with its adopt button
SuggestionShown(d) ==
    /\ Truthy(d.d2.what)
    /\ Truthy(d.d4.ai_analysis)
    /\ Displayable(d.d4.ai_analysis)

Authoring(ev, button, key, lang, resp4) ==
    /\ api_key' = key
    /\ translation_lang' = lang
    /\ \E resp8 \in D8ResponsesFor(key, lang) :
       \E run \in {authoring_run(data, key, lang, ev, resp4, resp8)} :
         /\ data' = run.data
         /\ last' = [op |-> ev.kind, button |-> button, outcome |-> run.halt,
                     requests |-> run.requests, msgs |-> run.msgs,
                     analysis |-> run.analysis, d8 |-> run.d8]
    /\ UNCHANGED <<auditing, gs>>

\* the key field of the sidebar, lines 361-364
AuthoringSetApiKey ==
    \E k \in ApiKeys :
        Authoring([kind |-> "key"], FALSE, k, translation_lang, Raises)

\* a field of the D0 or D1 tab, lines 395-412
EditTitle == Authoring([kind |-> "title"], FALSE, api_key, translation_lang, Raises)

\* the What field of the D2 tab, lines 420-424
EditWhat ==
    \E v \in WhatTexts :
        Authoring([kind |-> "what", value |-> v], FALSE, api_key,
                  translation_lang, Raises)

\* the analysis button, line 456
Analyse ==
    /\ Truthy(data.d2.what)
    /\ \E resp4 \in AnalysisResponses :
         Authoring([kind |-> "analyse"], TRUE, api_key, translation_lang, resp4)

\* the adopt button, line 493
Adopt ==
    /\ SuggestionShown(data)
    /\ Authoring([kind |-> "adopt"], TRUE, api_key, translation_lang, Raises)

\* a field of the record table, line 506
EditWhy ==
    /\ ~Faulted
    /\ \E i \in EditSlots, v \in EditTexts :
         Authoring([kind |-> "why", slot |-> i, value |-> v], FALSE, api_key,
                   translation_lang, Raises)

\* the language select box of the D8 tab, line 573
SelectTranslationLang ==
    /\ ~Faulted
    /\ \E l \in Languages :
         Authoring([kind |-> "lang"], FALSE, api_key, l, Raises)

NextAuthoring ==
    \/ AuthoringSetApiKey
    \/ EditTitle
    \/ EditWhat
    \/ Analyse
    \/ Adopt
    \/ EditWhy
    \/ SelectTranslationLang

SpecAuthoring == Init /\ [][NextAuthoring]_vars

-----------------------------------------------------------------------------
(* Properties of the authoring mode *)

\* the object the analysis prompt asks for: a list of strings and a summary
IsSuggestion(v) ==
    /\ v.type = "dict"
    /\ {"five_whys", "root_cause"} \subseteq DOMAIN v.items
    /\ \A i \in DOMAIN v.items["five_whys"].elems :
           v.items["five_whys"].elems[i].type = "str"
    /\ v.items["root_cause"].type = "str"

Pending == data.d4.ai_analysis

SuggestedPath == Pending.items["five_whys"].elems

\* C11: adopting a pending suggestion whose five_whys has length n <= 5
\* sets whys[i] to five_whys[i] for every i < n, leaves the other slots at
\* their prior values, sets root_cause to the suggestion's, and clears the
\* pending suggestion, so that no suggestion is on screen to adopt
C11_AdoptWritesFirstN ==
    [][(/\ SuggestionShown(data)
        /\ IsSuggestion(Pending)
        /\ Len(SuggestedPath) <= NumWhys
        /\ last'.op = "adopt")
           => /\ \A i \in 1..NumWhys :
                    data'.d4.whys[i] = IF i <= Len(SuggestedPath)
                                       THEN SuggestedPath[i]
                                       ELSE data.d4.whys[i]
              /\ data'.d4.root_cause = Pending.items["root_cause"]
              /\ data'.d4.ai_analysis = None
              /\ ~SuggestionShown(data')
              /\ data'.d2 = data.d2
              /\ data'.d5 = data.d5]_vars

\* a path of three entries was adopted over a table whose fourth slot the
\* user had filled in
C11_Witness ==
    /\ last.op = "adopt"
    /\ last.outcome = "none"
    /\ data.d4.whys = [i \in 1..NumWhys |->
                          CASE i <= 3 -> WhyText(i)
                            [] i = 4  -> Str(<<"m">>)
                            [] OTHER  -> EmptyStr]
    /\ data.d4.root_cause = RootText
    /\ data.d4.ai_analysis = None

\* C12: in every reachable state d4.whys has exactly five slots and each
\* holds a string
C12_FiveStringSlots ==
    /\ DOMAIN data.d4.whys = 1..NumWhys
    /\ \A i \in 1..NumWhys : data.d4.whys[i].type = "str"

\* C17: no script run ends in an exception that nobody catches
C17_NoUncaughtFault == last.outcome # "fault"

\* C18: a script run that issues a request was started by a button
C18_RequestsNeedButton ==
    [][last'.requests > 0 => last'.button]_vars

\* C20: when the analysis button is pressed while a suggestion is pending,
\* the pending suggestion afterwards is not the prior one unless the new
\* request stored its result
C20_RerequestDiscardsPrior ==
    [][(SuggestionShown(data) /\ last'.op = "analyse")
           => \/ last'.analysis = "stored"
              \/ data'.d4.ai_analysis # Pending]_vars

-----------------------------------------------------------------------------
(* The session without a key *)

\* audit results the session can hold when the key field is emptied: none,
\* a stored pair, a stored pair with its translation
AuditedOnce ==
    StoreAudit(InitialAuditResult, ObjectOmitting({}), Str(<<"a">>))

AuditedAndTranslated ==
    StoreTranslated(AuditedOnce, Split(<<"a">> \o SEP), Str(<<"a">> \o SEP))

NoKeyAuditResults == {InitialAuditResult, AuditedOnce, AuditedAndTranslated}

\* reports the session can hold when the key field is emptied: the first
\* one, one with a problem, and one with a pending result of each shape
WithProblem == [InitialData EXCEPT !.d2.what = Str(<<"p">>)]

NoKeyReports ==
    {InitialData, WithProblem}
    \cup {[WithProblem EXCEPT !.d4.ai_analysis = v] :
            v \in {Suggestion(WhyList(2), RootText),
                   WithoutKey(Suggestion(WhyList(2), RootText), "root_cause"),
                   List}}
    \cup {[WithProblem EXCEPT
             !.d4 = d4_adopt([@ EXCEPT !.ai_analysis =
                        WithoutKey(Suggestion(<<Num(3)>>, RootText),
                                   "root_cause")]).d4]}

InitNoKey ==
    /\ api_key = ""
    /\ audit_result \in NoKeyAuditResults
    /\ derived_from = IF HasTranslation(audit_result)
                      THEN PairOf(audit_result) ELSE None
    /\ audit_lang_select \in Languages
    /\ data \in NoKeyReports
    /\ translation_lang \in Languages
    /\ last = NoRun
    /\ tr = NoCall
    /\ gs = NoCall

NextNoKey ==
    \/ AuditNoKey
    \/ TranslateNoKey
    \/ SelectAuditLang
    \/ EditTitle
    \/ EditWhat
    \/ Analyse
    \/ Adopt
    \/ EditWhy
    \/ SelectTranslationLang

SpecNoKey == InitNoKey /\ [][NextNoKey]_vars

\* the record table holds strings: a render of it changes nothing
TableOfStrings == \A i \in 1..NumWhys : data.d4.whys[i].type = "str"

\* C16: while no key is configured no script run issues a request and the
\* audit result is never changed; pressing a button that asks for a request
\* (analysis, audit, audit translation) is answered with an error message
\* and leaves the report unchanged, and so is every render of the D8 tab
\* with a language other than the default. The report is one whose record
\* table holds strings.
C16_NoKeyNoRequest ==
    [][(api_key' = "" /\ TableOfStrings)
          => /\ last'.requests = 0
             /\ audit_result' = audit_result
             /\ last'.op = "analyse"
                    => ErrKeyD4 \in last'.msgs /\ data' = data
             /\ last'.op \in {"audit", "translate"}
                    => last'.msgs # {} /\ data' = data
             /\ (/\ last'.op \in {"title", "lang"}
                 /\ translation_lang' # LangDefault
                 /\ last'.outcome = "none")
                    => ErrKeyD8 \in last'.msgs /\ data' = data]_vars

\* without a key the analysis button was pressed with a suggestion pending
\* and a translation language chosen: both refusals were reported
C16_Witness ==
    /\ api_key = ""
    /\ last.op = "analyse"
    /\ last.analysis = "nokey"
    /\ last.requests = 0
    /\ ErrKeyD4 \in last.msgs
    /\ ErrKeyD8 \in last.msgs
    /\ SuggestionShown(data)

-----------------------------------------------------------------------------
(* The D5 list *)

\* what the user types as a new action, and the planned dates chosen
ActionTexts == {Str(<<"x">>), Str(<<"y">>)}

PlanDates == {DateStr(2024, 6, 10), DateStr(2024, 6, 24)}

\* the add button, line 520, with the text of the field beside it, which
\* may be empty, and the date of the date field
AddPCA ==
    /\ ~Faulted
    /\ Len(data.d5) < MaxActions
    /\ \E a \in ActionTexts \cup {EmptyStr}, dt \in PlanDates :
         Authoring([kind |-> "add", action |-> a, date |-> dt], TRUE,
                   api_key, translation_lang, Raises)

\* the checkbox of an entry, line 535
TogglePCA ==
    /\ ~Faulted
    /\ \E i \in 1..Len(data.d5) :
         Authoring([kind |-> "toggle", index |-> i], FALSE, api_key,
                   translation_lang, Raises)

NextD5 ==
    \/ AddPCA
    \/ TogglePCA
    \/ AuthoringSetApiKey
    \/ EditTitle
    \/ EditWhat
    \/ SelectTranslationLang

SpecD5 == Init /\ [][NextD5]_vars

\* C21: in every step the D5 list keeps its entries in their order, with
\* their action text and date, and each status stays Open or Completed; the
\* list grows by at most one entry, appended at the end with status Open,
\* and then no existing entry changes at all
C21_AppendOnly ==
    [][/\ Len(data'.d5) >= Len(data.d5)
       /\ Len(data'.d5) <= Len(data.d5) + 1
       /\ \A i \in 1..Len(data.d5) :
             /\ data'.d5[i].action = data.d5[i].action
             /\ data'.d5[i].date = data.d5[i].date
             /\ data'.d5[i].status \in {"Open", "Completed"}
       /\ Len(data'.d5) > Len(data.d5)
             => /\ data'.d5[Len(data'.d5)].status = "Open"
                /\ SubSeq(data'.d5, 1, Len(data.d5)) = data.d5
       /\ data'.d5 # data.d5 => last'.op \in {"add", "toggle"}]_vars

\* a second action was appended behind one that had been marked Completed
C21_Witness ==
    /\ last.op = "add"
    /\ Len(data.d5) = 2
    /\ data.d5[1] = [action |-> Str(<<"x">>), date |-> DateStr(2024, 6, 10),
                     status |-> "Completed"]
    /\ data.d5[2] = [action |-> Str(<<"y">>), date |-> DateStr(2024, 6, 24),
                     status |-> "Open"]

-----------------------------------------------------------------------------
(* What an analysis response may change *)

\* C22: a script run started by the analysis button changes nothing of the
\* report but the pending suggestion; the record table changes only in a
\* run started by the adopt button or by an edit of one of its fields, and
\* the summary only in a run started by the adopt button. The report is one
\* whose record table holds strings.
C22_ResponseChangesOnlyPending ==
    [][TableOfStrings
          => /\ last'.op = "analyse"
                   => [data' EXCEPT !.d4.ai_analysis = data.d4.ai_analysis]
                          = data
             /\ data'.d4.whys # data.d4.whys
                   => last'.op \in {"adopt", "why"}
             /\ data'.d4.root_cause # data.d4.root_cause
                   => last'.op = "adopt"]_vars

\* a suggestion of three entries was received and stored over a table whose
\* fourth slot the user had filled in: table and summary are as they were
C22_Witness ==
    /\ last.op = "analyse"
    /\ last.analysis = "stored"
    /\ IsSuggestion(Pending)
    /\ Len(SuggestedPath) = 3
    /\ data.d4.whys = [i \in 1..NumWhys |->
                          IF i = 4 THEN Str(<<"m">>) ELSE EmptyStr]
    /\ data.d4.root_cause = EmptyStr

-----------------------------------------------------------------------------
(* The language a stored translation is shown under *)

\* the render presents stored translated text as the translation into the
\* language of the select box
ShownAsTranslation(ar, target_lang_text) ==
    View(ar, target_lang_text) \in {"split", "merged"}

\* C23: after a translation run has stored its result for the language then
\* selected, choosing another language does not present that stored result
\* as the translation into the newly selected language
C23_ShownUnderItsOwnLanguage ==
    [][(/\ last.op = "translate"
        /\ last.outcome \in {"split", "merged"}
        /\ audit_lang_select' # audit_lang_select)
           => ~ShownAsTranslation(audit_result', audit_lang_select')]_vars

====
